---- MODULE Spec2Model ----
(***************************************************************************)
(* A model of the extractor of juand-gv/AWS-DE-Test                        *)
(* (src/lambda/extractor/lambda_function.py): the handler that fetches a   *)
(* JSON user feed, flattens every item to a fixed record and writes the    *)
(* batch to object storage as parquet or NDJSON, and the pure helpers it   *)
(* is built from.                                                          *)
(*                                                                         *)
(* Python values are tagged records: [t |-> "null"], [t |-> "str", v],     *)
(* [t |-> "int", v], [t |-> "list", v |-> <<...>>], [t |-> "dict", v |->   *)
(* function from keys to values].  A raised exception that a helper lets   *)
(* escape is the value [t |-> "raise", v |-> <exception name>].            *)
(***************************************************************************)
EXTENDS Integers, Sequences, FiniteSets, TLC

VARIABLES
    env,        \* per invocation: the process environment the module was loaded under
    feed,       \* the HTTP source: one that may answer anything, or a steady one
    now,        \* the wall clock, in whole seconds (time.time())
    store,      \* object storage: <<bucket, key>> -> the object last put there
    pc,         \* per invocation: position in handler
    retries,    \* per invocation: what is left of Retry(total=3)
    http,       \* per invocation: the outcomes of the HTTP GET attempts, in order
    payload,    \* per invocation: resp.json()
    items,      \* per invocation: the resolved item list
    normalized, \* per invocation: the batch
    ts,         \* per invocation: int(time.time()) taken for the key
    trail,      \* per invocation: the encode+write attempts, in order
    puts,       \* per invocation: the s3.put_object calls issued, in order
    result,     \* per invocation: the returned mapping, or the raised error
    raw,        \* helper harness: the raw item under test
    edits,      \* helper harness: how many edits made raw from its base
    rec,        \* helper harness: normalize_item(raw), once applied
    casted,     \* helper harness: cast_for_arrow(rec), once applied
    user,       \* helper harness: UserModel.parse_obj(raw), once applied
    vrec,       \* helper harness: validate_and_normalize(raw), once applied
    lenient,    \* helper harness: the batch of the lenient handler's loop
    strict      \* helper harness: the batch of the validating handler's loop

hvars == <<env, feed, now, store, pc, retries, http, payload, items, normalized,
           ts, trail, puts, result>>
nvars == <<raw, edits, rec, casted, user, vrec, lenient, strict>>
vars == <<env, feed, now, store, pc, retries, http, payload, items, normalized,
          ts, trail, puts, result, raw, edits, rec, casted, user, vrec, lenient,
          strict>>

-----------------------------------------------------------------------------
(* Python values *)

JNull == [t |-> "null"]
JStr(s) == [t |-> "str", v |-> s]
JInt(n) == [t |-> "int", v |-> n]
JBool(b) == [t |-> "bool", v |-> b]
JFloat(s) == [t |-> "float", v |-> s]
JList(s) == [t |-> "list", v |-> s]
JDict(f) == [t |-> "dict", v |-> f]
Exc(name) == [t |-> "raise", v |-> name]
NoKeys == [k \in {} |-> JNull]

IsDict(x) == x.t = "dict"
IsList(x) == x.t = "list"
IsNone(x) == x.t = "null"
IsRaise(x) == "t" \in DOMAIN x /\ x.t = "raise"

\* bool(x): None, False, 0, "", [] and {} are falsy.
Truthy(x) ==
    CASE x.t = "null" -> FALSE
      [] x.t = "bool" -> x.v
      [] x.t = "int" -> x.v # 0
      [] x.t = "float" -> x.v # "0.0"
      [] x.t = "str" -> x.v # ""
      [] x.t = "list" -> Len(x.v) > 0
      [] x.t = "dict" -> DOMAIN x.v # {}
      [] OTHER -> TRUE

\* d.get(k): the value under k, None when k is absent.
DictGet(d, k) == IF k \in DOMAIN d.v THEN d.v[k] ELSE JNull

\* The keys of a dict in one fixed order (the model keeps no insertion order).
RECURSIVE KeySeq(_)
KeySeq(S) ==
    IF S = {} THEN <<>>
    ELSE LET k == CHOOSE x \in S : TRUE IN <<k>> \o KeySeq(S \ {k})

\* repr(x) and str(x), as far as the values of the model go.
RECURSIVE PyRepr(_)
RECURSIVE ReprList(_)
RECURSIVE ReprDict(_, _)
PyRepr(x) ==
    CASE x.t = "null" -> "None"
      [] x.t = "bool" -> IF x.v THEN "True" ELSE "False"
      [] x.t = "int" -> ToString(x.v)
      [] x.t = "float" -> x.v
      [] x.t = "str" -> "'" \o x.v \o "'"
      [] x.t = "list" -> "[" \o ReprList(x.v) \o "]"
      [] x.t = "dict" -> "{" \o ReprDict(x.v, KeySeq(DOMAIN x.v)) \o "}"
ReprList(s) ==
    IF s = <<>> THEN ""
    ELSE PyRepr(Head(s)) \o (IF Len(s) > 1 THEN ", " ELSE "") \o ReprList(Tail(s))
ReprDict(f, ks) ==
    IF ks = <<>> THEN ""
    ELSE "'" \o Head(ks) \o "': " \o PyRepr(f[Head(ks)])
         \o (IF Len(ks) > 1 THEN ", " ELSE "") \o ReprDict(f, Tail(ks))

PyStr(x) == IF x.t = "str" THEN x.v ELSE PyRepr(x)

-----------------------------------------------------------------------------
(* get_in, as_iso, to_str, normalize_item *)

\* The loop of get_in from step n on, cur being the value reached so far.
RECURSIVE get_in_from(_, _, _, _)
get_in_from(cur, path, n, default) ==
    IF n > Len(path) THEN cur
    ELSE IF ~IsDict(cur) \/ path[n] \notin DOMAIN cur.v THEN default
    ELSE get_in_from(cur.v[path[n]], path, n + 1, default)

\* get_in without the early return: it stops where the path breaks and hands
\* back what it reached.
RECURSIVE get_in_from_keep(_, _, _)
get_in_from_keep(cur, path, n) ==
    IF n > Len(path) THEN cur
    ELSE IF ~IsDict(cur) \/ path[n] \notin DOMAIN cur.v THEN cur
    ELSE get_in_from_keep(cur.v[path[n]], path, n + 1)
get_in_keep(d, path) == get_in_from_keep(d, path, 1)

get_in(d, path) == get_in_from(d, path, 1, JNull)

\* dt_str.replace("Z", "+00:00"), on the strings of the model.
ReplaceZ(s) ==
    CASE s = "1991-02-02T04:05:31Z" -> "1991-02-02T04:05:31+00:00"
      [] s = "2003-03-31T11:44:24.906Z" -> "2003-03-31T11:44:24.906+00:00"
      [] OTHER -> s

\* datetime.fromisoformat(s).isoformat(): the canonical form, or ValueError.
FromIsoFormat(s) ==
    CASE s = "1991-02-02T04:05:31+00:00" -> JStr("1991-02-02T04:05:31+00:00")
      [] s = "2003-03-31T11:44:24.906+00:00" -> JStr("2003-03-31T11:44:24.906000+00:00")
      [] s = "1991-02-02" -> JStr("1991-02-02T00:00:00")
      [] OTHER -> Exc("ValueError")

as_iso(dt_str) ==
    IF ~Truthy(dt_str) THEN JNull
    ELSE LET parsed == IF dt_str.t = "str" THEN FromIsoFormat(ReplaceZ(dt_str.v))
                       ELSE Exc("AttributeError")
         IN IF IsRaise(parsed) THEN JStr(PyStr(dt_str)) ELSE parsed

to_str(x) == IF IsNone(x) THEN JNull ELSE JStr(PyStr(x))

\* The keys of the dict literal of normalize_item, in the order it writes them.
FieldOrder ==
    << "gender", "first_name", "last_name", "email", "country", "state", "city",
       "postcode", "street_number", "street_name", "phone", "cell", "nat", "dob",
       "age", "registered_date", "registered_age", "uuid", "username",
       "picture_large", "picture_medium", "picture_thumbnail", "id_name",
       "id_value" >>

\* The key path each output field is read from.
FieldPath ==
    [ gender |-> <<"gender">>,
      first_name |-> <<"name", "first">>,
      last_name |-> <<"name", "last">>,
      email |-> <<"email">>,
      country |-> <<"location", "country">>,
      state |-> <<"location", "state">>,
      city |-> <<"location", "city">>,
      postcode |-> <<"location", "postcode">>,
      street_number |-> <<"location", "street", "number">>,
      street_name |-> <<"location", "street", "name">>,
      phone |-> <<"phone">>,
      cell |-> <<"cell">>,
      nat |-> <<"nat">>,
      dob |-> <<"dob", "date">>,
      age |-> <<"dob", "age">>,
      registered_date |-> <<"registered", "date">>,
      registered_age |-> <<"registered", "age">>,
      uuid |-> <<"login", "uuid">>,
      username |-> <<"login", "username">>,
      picture_large |-> <<"picture", "large">>,
      picture_medium |-> <<"picture", "medium">>,
      picture_thumbnail |-> <<"picture", "thumbnail">>,
      id_name |-> <<"id", "name">>,
      id_value |-> <<"id", "value">> ]

\* The conversion normalize_item wraps around each field's get_in.
IntFields == {"street_number", "age", "registered_age"}
DateFields == {"dob", "registered_date"}
Convert(f, x) ==
    IF IsRaise(x) \/ f \in IntFields THEN x
    ELSE IF f \in DateFields THEN as_iso(x)
    ELSE to_str(x)

\* normalize_item leaving out the fields that came out as None.
normalize_item_sparse(r) ==
    LET value(f) == Convert(f, get_in(r, FieldPath[f]))
        keys == {FieldOrder[k] : k \in 1..Len(FieldOrder)}
    IN [f \in {g \in keys : ~IsNone(value(g))} |-> value(f)]

\* The dict literal of normalize_item; a helper that raises makes the call raise.
normalize_item(r) ==
    LET value(f) == Convert(f, get_in(r, FieldPath[f]))
        keys == {FieldOrder[k] : k \in 1..Len(FieldOrder)}
    IN IF \E f \in keys : IsRaise(value(f))
       THEN Exc((value(CHOOSE f \in keys : IsRaise(value(f)))).v)
       ELSE [f \in keys |-> value(f)]

\* The field names of parquet_schema(), the fixed schema of the output.
SchemaFields ==
    { "gender", "first_name", "last_name", "email", "country", "state", "city",
      "postcode", "street_number", "street_name", "phone", "cell", "nat", "dob",
      "age", "registered_date", "registered_age", "uuid", "username",
      "picture_large", "picture_medium", "picture_thumbnail", "id_name",
      "id_value" }

-----------------------------------------------------------------------------
(* to_ndjson_bytes, cast_for_arrow, to_parquet_bytes *)

\* json.dumps of one value, with the default separators.
RECURSIVE JsonText(_)
RECURSIVE JsonList(_)
RECURSIVE JsonDict(_, _)
JsonText(x) ==
    CASE x.t = "null" -> "null"
      [] x.t = "bool" -> IF x.v THEN "true" ELSE "false"
      [] x.t = "int" -> ToString(x.v)
      [] x.t = "float" -> x.v
      [] x.t = "str" -> "\"" \o x.v \o "\""
      [] x.t = "list" -> "[" \o JsonList(x.v) \o "]"
      [] x.t = "dict" -> "{" \o JsonDict(x.v, KeySeq(DOMAIN x.v)) \o "}"
JsonList(s) ==
    IF s = <<>> THEN ""
    ELSE JsonText(Head(s)) \o (IF Len(s) > 1 THEN ", " ELSE "") \o JsonList(Tail(s))
JsonDict(f, ks) ==
    IF ks = <<>> THEN ""
    ELSE "\"" \o Head(ks) \o "\": " \o JsonText(f[Head(ks)])
         \o (IF Len(ks) > 1 THEN ", " ELSE "") \o JsonDict(f, Tail(ks))

\* json.dumps(r, default=str, ensure_ascii=False) of a record: its keys in the
\* order the dict literal wrote them.
RECURSIVE JsonFields(_, _)
JsonFields(r, ks) ==
    IF ks = <<>> THEN ""
    ELSE "\"" \o Head(ks) \o "\": " \o JsonText(r[Head(ks)])
         \o (IF Len(ks) > 1 THEN ", " ELSE "") \o JsonFields(r, Tail(ks))

RecordKeys(r) == SelectSeq(FieldOrder, LAMBDA k : k \in DOMAIN r)

JsonLine(r) == "{" \o JsonFields(r, RecordKeys(r)) \o "}"

\* "\n".join(lines): the lines with a "\n" between two neighbours.
RECURSIVE JoinLines(_)
JoinLines(lines) ==
    IF lines = <<>> THEN <<>>
    ELSE IF Len(lines) = 1 THEN <<Head(lines)>>
    ELSE <<Head(lines), "\n">> \o JoinLines(Tail(lines))

\* The blob is the sequence of its pieces: lines and the newlines between and
\* after them.
to_ndjson_bytes(records) ==
    JoinLines([k \in 1..Len(records) |-> JsonLine(records[k])]) \o <<"\n">>

\* The integers the model's strings can spell, for int(str(v)).
IntLits == {-3, 0, 7, 34, 42, 3553, 12345}

\* to_int_or_none handing back what it cannot parse instead of None.
to_int_or_none_keep(v) ==
    IF IsNone(v) THEN JNull
    ELSE IF v.t \in {"int", "bool"} THEN v
    ELSE IF \E n \in IntLits : ToString(n) = PyStr(v)
         THEN JInt(CHOOSE n \in IntLits : ToString(n) = PyStr(v))
         ELSE v

to_int_or_none(v) ==
    IF IsNone(v) THEN JNull
    ELSE IF v.t \in {"int", "bool"} THEN v
    ELSE IF \E n \in IntLits : ToString(n) = PyStr(v)
         THEN JInt(CHOOSE n \in IntLits : ToString(n) = PyStr(v))
         ELSE JNull

cast_for_arrow(record) ==
    [f \in DOMAIN record |->
        IF f \in {"street_number", "age", "registered_age"}
        THEN to_int_or_none(record[f])
        ELSE record[f]]

\* The parquet file: the table built from the cast records against the fixed
\* schema, snappy-compressed.  pa.Table.from_pylist keeps the schema's columns.
to_parquet_bytes(records) ==
    [ magic |-> "PAR1",
      compression |-> "snappy",
      rows |-> [k \in 1..Len(records) |->
                   LET row == cast_for_arrow(records[k])
                   IN [f \in SchemaFields |->
                          IF f \in DOMAIN row THEN row[f] ELSE JNull]] ]

-----------------------------------------------------------------------------
(* Module-level configuration, read from the environment at import *)

Invocations == {"a", "b"}

\* os.environ.get(name, default): None stands for a variable that is not set.
EnvGet(value, default) == IF IsNone(value) THEN default ELSE value

\* str.lower() on the format selectors of the model.
Lower(s) ==
    CASE s = "PARQUET" -> "parquet"
      [] s = "Parquet" -> "parquet"
      [] s = "NDJSON" -> "ndjson"
      [] OTHER -> s

\* str.rstrip("/") on the prefixes of the model.
RStripSlash(s) ==
    CASE s = "raw/" -> "raw"
      [] s = "landing/" -> "landing"
      [] s = "landing//" -> "landing"
      [] s = "/" -> ""
      [] OTHER -> s

BUCKET(i) == EnvGet(env[i].BUCKET, JStr("datapipelinestack-databuckete3889a50-gnj55fcp3puh"))
PREFIX(i) == EnvGet(env[i].PREFIX, JStr("raw/"))
API_URL(i) == EnvGet(env[i].API_URL, JStr("https://randomuser.me/api/?results=100"))
FILE_FORMAT(i) ==
    LET got == EnvGet(env[i].FILE_FORMAT, JStr("parquet"))
    IN Lower(IF Truthy(got) THEN got.v ELSE "ndjson")
HAS_PYARROW(i) == env[i].pyarrow

\* Retry(total=3, status_forcelist=(429, 500, 502, 503, 504)).
RetryTotal == 3
StatusForcelist == {429, 500, 502, 503, 504}

-----------------------------------------------------------------------------
(* What the handler returns or raises *)

Running == [status |-> "running"]
Ok(key, format, count) ==
    [status |-> "ok", key |-> key, format |-> format, records |-> count]
NoRecords(n) == [status |-> "no_records", fetched |-> n]
Raised(error) == [status |-> "raised", error |-> error]

\* The key base with the prefix taken as it is configured.
KeyBase_keep_slash(i, t) == PREFIX(i).v \o "/users_" \o ToString(t)

\* base = f"{PREFIX.rstrip('/')}/users_{ts}"
KeyBase(i, t) == RStripSlash(PREFIX(i).v) \o "/users_" \o ToString(t)

\* [normalize_item(x) for x in items if isinstance(x, dict)]
\* The comprehension building the batch back to front.
RECURSIVE NormalizeAll_reversed(_)
NormalizeAll_reversed(its) ==
    IF its = <<>> THEN <<>>
    ELSE NormalizeAll_reversed(Tail(its))
         \o (IF IsDict(Head(its)) THEN <<normalize_item(Head(its))>> ELSE <<>>)

RECURSIVE NormalizeAll(_)
NormalizeAll(its) ==
    IF its = <<>> THEN <<>>
    ELSE (IF IsDict(Head(its)) THEN <<normalize_item(Head(its))>> ELSE <<>>)
         \o NormalizeAll(Tail(its))

\* items = payload.get("results") or payload.get("data") or payload;
\* a dict becomes the one-element list of it; what is no list raises.
ResolveItems(p) ==
    IF ~IsDict(p) THEN Exc("AttributeError")
    ELSE LET r == DictGet(p, "results")
             d == DictGet(p, "data")
             chosen == IF Truthy(r) THEN r ELSE IF Truthy(d) THEN d ELSE p
             listed == IF IsDict(chosen) THEN JList(<<chosen>>) ELSE chosen
         IN IF IsList(listed) THEN listed ELSE Exc("RuntimeError: Unexpected payload shape")

-----------------------------------------------------------------------------
(* The inputs of the model *)

MaxItems == 2
MaxClock == 1
MaxEdits == 1

\* The two items of tests/test_lambda_schema.py.
UserMinimal ==
    JDict( "gender" :> JStr("male")
        @@ "name" :> JDict("first" :> JStr("John") @@ "last" :> JStr("Doe"))
        @@ "email" :> JStr("john@example.com")
        @@ "location" :> JDict("city" :> JStr("Bogota") @@ "country" :> JStr("CO")) )

UserFull ==
    JDict( "gender" :> JStr("male")
        @@ "name" :> JDict("title" :> JStr("Mr") @@ "first" :> JStr("Roland")
                           @@ "last" :> JStr("Webb"))
        @@ "location" :> JDict(
               "street" :> JDict("number" :> JInt(3553) @@ "name" :> JStr("The Drive"))
            @@ "city" :> JStr("Armagh")
            @@ "state" :> JStr("Cumbria")
            @@ "country" :> JStr("United Kingdom")
            @@ "postcode" :> JStr("QE5I 1AU"))
        @@ "email" :> JStr("roland.webb@example.com")
        @@ "login" :> JDict("uuid" :> JStr("df55d042") @@ "username" :> JStr("sadkoala501"))
        @@ "dob" :> JDict("date" :> JStr("1991-02-02T04:05:31Z") @@ "age" :> JInt(34))
        @@ "registered" :> JDict("date" :> JStr("2003-03-31T11:44:24.906Z")
                                 @@ "age" :> JInt(7))
        @@ "phone" :> JStr("016977 79429")
        @@ "cell" :> JStr("07391 501024")
        @@ "id" :> JDict("name" :> JStr("NINO") @@ "value" :> JStr("GJ 83 37 49 H"))
        @@ "picture" :> JDict("large" :> JStr("https://img/l.jpg")
                              @@ "medium" :> JStr("https://img/m.jpg")
                              @@ "thumbnail" :> JStr("https://img/t.jpg"))
        @@ "nat" :> JStr("GB") )

\* An item whose numbers come as strings and whose postcode comes as a number.
UserMixed ==
    JDict( "name" :> JDict("first" :> JStr("Ana"))
        @@ "location" :> JDict(
               "street" :> JDict("number" :> JStr("42") @@ "name" :> JStr("Main"))
            @@ "postcode" :> JInt(12345))
        @@ "dob" :> JDict("date" :> JStr("1991-02-02") @@ "age" :> JStr("abc")) )

ItemPool == {UserMinimal, UserMixed, JStr("junk")}
ItemLists == UNION {[1..n -> ItemPool] : n \in 0..MaxItems}

\* What may sit under "results" or "data".
Listed ==
    {JList(l) : l \in ItemLists} \cup {JNull, JStr("abc"), JInt(7), UserMinimal}

Payloads ==
    {JDict("results" :> x) : x \in Listed}
    \cup {JDict("data" :> x) : x \in Listed}
    \cup {JDict("results" :> x @@ "data" :> y) :
             x \in {JList(<<>>), JList(<<UserMinimal>>)},
             y \in {JList(<<>>), JList(<<UserMixed>>)}}
    \cup {JList(l) : l \in ItemLists}
    \cup {UserMinimal, JDict(NoKeys), JStr("oops"), JNull}

\* The environments: one family varies the two required settings, the other
\* the optional ones and the presence of pyarrow.
EnvBuckets == {JNull, JStr(""), JStr("my-bucket")}
EnvUrls == {JNull, JStr(""), JStr("https://example.test/api")}
EnvPrefixes == {JNull, JStr("landing/")}
EnvFormats == {JNull, JStr(""), JStr("parquet"), JStr("PARQUET"), JStr("ndjson"), JStr("csv")}
Envs ==
    [BUCKET : EnvBuckets, PREFIX : {JNull}, API_URL : EnvUrls,
     FILE_FORMAT : {JStr("ndjson")}, pyarrow : {TRUE}]
    \cup [BUCKET : {JStr("my-bucket")}, PREFIX : EnvPrefixes,
          API_URL : {JStr("https://example.test/api")},
          FILE_FORMAT : EnvFormats, pyarrow : BOOLEAN]
NoEnv ==
    [BUCKET |-> JNull, PREFIX |-> JNull, API_URL |-> JNull, FILE_FORMAT |-> JNull,
     pyarrow |-> FALSE]

\* What one HTTP GET attempt can come to.
TransportError == [t |-> "error"]
Status(code) == [t |-> "status", v |-> code]
HttpOutcomes == {TransportError} \cup {Status(c) : c \in {200, 404, 429, 503}}

\* The source: one that may fail, answer any status and serve any body of the
\* model, or a steady one that answers every GET with 200 and one fixed body.
AnySource == [fixed |-> FALSE]
FixedSource(p) == [fixed |-> TRUE, body |-> p]
Answers == IF feed.fixed THEN {Status(200)} ELSE HttpOutcomes
Bodies == IF feed.fixed THEN {feed.body} ELSE Payloads \cup {Exc("JSONDecodeError")}
NoAttempt == [n |-> 0, last |-> [t |-> "none"]]

-----------------------------------------------------------------------------
(* The handler *)

Return(i, value) ==
    /\ result' = [result EXCEPT ![i] = value]
    /\ pc' = [pc EXCEPT ![i] = "done"]

\* if not BUCKET: raise; if not API_URL: raise
CheckConfig(i) ==
    /\ pc[i] = "start"
    /\ IF ~Truthy(BUCKET(i))
       THEN Return(i, Raised("RuntimeError: BUCKET env var required"))
       ELSE IF ~Truthy(API_URL(i))
       THEN Return(i, Raised("RuntimeError: API_URL env var required"))
       ELSE pc' = [pc EXCEPT ![i] = "fetch"] /\ UNCHANGED result
    /\ UNCHANGED <<env, feed, now, store, retries, http, payload, items, normalized,
                   ts, trail, puts>>
    /\ UNCHANGED nvars

\* One GET attempt of sess.get under the Retry policy; on the attempt that ends
\* the request, resp.raise_for_status() and resp.json() as well.

\* A retry policy that retries every error status.
Retryable_every_error(o) == o.t = "error" \/ (o.t = "status" /\ o.v >= 400)

Retryable(o) == o.t = "error" \/ (o.t = "status" /\ o.v \in StatusForcelist)

\* resp.raise_for_status() raises on a 4xx or 5xx response.
raise_for_status_never(o) == FALSE

raise_for_status(o) == o.v >= 400 /\ o.v < 600

HttpGet(i) ==
    /\ pc[i] = "fetch"
    /\ \E o \in Answers :
         /\ http' = [http EXCEPT ![i] = [n |-> @.n + 1, last |-> o]]
         /\ IF Retryable(o) /\ retries[i] > 0
            THEN /\ retries' = [retries EXCEPT ![i] = @ - 1]
                 /\ UNCHANGED <<pc, result, payload>>
            ELSE /\ UNCHANGED retries
                 /\ IF o.t = "error"
                    THEN Return(i, Raised("ConnectionError")) /\ UNCHANGED payload
                    ELSE IF raise_for_status(o)
                    THEN Return(i, Raised("HTTPError")) /\ UNCHANGED payload
                    ELSE \E body \in Bodies :
                           IF IsRaise(body)
                           THEN Return(i, Raised(body.v)) /\ UNCHANGED payload
                           ELSE /\ payload' = [payload EXCEPT ![i] = body]
                                /\ pc' = [pc EXCEPT ![i] = "resolve"]
                                /\ UNCHANGED result
    /\ UNCHANGED <<env, feed, now, store, items, normalized, ts, trail, puts>>
    /\ UNCHANGED nvars

\* if FILE_FORMAT == "parquet": the format tried first.
FirstFormat_always_parquet(i) == "parquet"

FirstFormat(i) == IF FILE_FORMAT(i) = "parquet" THEN "parquet" ELSE "ndjson"

\* From the resolution of the item list to the choice of the first format.
Resolve(i) ==
    /\ pc[i] = "resolve"
    /\ LET its == ResolveItems(payload[i])
           norm == NormalizeAll(its.v)
       IN IF IsRaise(its)
          THEN Return(i, Raised(its.v)) /\ UNCHANGED <<items, normalized, ts>>
          ELSE IF \E k \in 1..Len(norm) : IsRaise(norm[k])
          THEN /\ Return(i, Raised("normalize_item"))
               /\ items' = [items EXCEPT ![i] = its.v]
               /\ UNCHANGED <<normalized, ts>>
          ELSE IF norm = <<>>
          THEN /\ Return(i, NoRecords(Len(its.v)))
               /\ items' = [items EXCEPT ![i] = its.v]
               /\ UNCHANGED <<normalized, ts>>
          ELSE /\ items' = [items EXCEPT ![i] = its.v]
               /\ normalized' = [normalized EXCEPT ![i] = norm]
               /\ ts' = [ts EXCEPT ![i] = now]
               /\ pc' = [pc EXCEPT ![i] = FirstFormat(i)]
               /\ UNCHANGED result
    /\ UNCHANGED <<env, feed, now, store, retries, http, payload, trail, puts>>
    /\ UNCHANGED nvars

\* upload_bytes: the put_object call as issued, and the object it leaves.
PutCall(i, key, data, content_type, ok) ==
    [bucket |-> BUCKET(i).v, key |-> key, body |-> data,
     content_type |-> content_type, ok |-> ok]
Stored(i, data, content_type) ==
    [body |-> data, content_type |-> content_type, by |-> i]
Attempt(format, outcome) == [format |-> format, outcome |-> outcome]

\* except Exception in the parquet branch: log, then fall through to NDJSON.
ExceptParquet_retry(i) == "parquet"
ExceptParquet_giveup(i) == "done"

ExceptParquet(i) == "ndjson"

\* The try block of the parquet branch, with its except.
ParquetAttempt(i) ==
    /\ pc[i] = "parquet"
    /\ LET key == KeyBase(i, ts[i]) \o ".parquet"
           data == to_parquet_bytes(normalized[i])
           ct == "application/octet-stream"
       IN IF ~HAS_PYARROW(i)
          THEN /\ trail' = [trail EXCEPT ![i] = Append(@, Attempt("parquet", "codec_missing"))]
               /\ pc' = [pc EXCEPT ![i] = ExceptParquet(i)]
               /\ UNCHANGED <<puts, store, result>>
          ELSE \/ /\ trail' = [trail EXCEPT ![i] = Append(@, Attempt("parquet", "encode_error"))]
                  /\ pc' = [pc EXCEPT ![i] = ExceptParquet(i)]
                  /\ UNCHANGED <<puts, store, result>>
               \/ /\ trail' = [trail EXCEPT ![i] = Append(@, Attempt("parquet", "write_error"))]
                  /\ puts' = [puts EXCEPT ![i] = Append(@, PutCall(i, key, data, ct, FALSE))]
                  /\ pc' = [pc EXCEPT ![i] = ExceptParquet(i)]
                  /\ UNCHANGED <<store, result>>
               \/ /\ trail' = [trail EXCEPT ![i] = Append(@, Attempt("parquet", "ok"))]
                  /\ puts' = [puts EXCEPT ![i] = Append(@, PutCall(i, key, data, ct, TRUE))]
                  /\ store' = (<<BUCKET(i).v, key>> :> Stored(i, data, ct)) @@ store
                  /\ Return(i, Ok(key, "parquet", Len(normalized[i])))
    /\ UNCHANGED <<env, feed, now, retries, http, payload, items, normalized, ts>>
    /\ UNCHANGED nvars

\* The try block of the NDJSON branch.
NdjsonAttempt(i) ==
    /\ pc[i] = "ndjson"
    /\ LET key == KeyBase(i, ts[i]) \o ".ndjson"
           data == to_ndjson_bytes(normalized[i])
           ct == "application/x-ndjson; charset=utf-8"
       IN \/ /\ trail' = [trail EXCEPT ![i] = Append(@, Attempt("ndjson", "write_error"))]
             /\ puts' = [puts EXCEPT ![i] = Append(@, PutCall(i, key, data, ct, FALSE))]
             /\ Return(i, Raised("ClientError"))
             /\ UNCHANGED store
          \/ /\ trail' = [trail EXCEPT ![i] = Append(@, Attempt("ndjson", "ok"))]
             /\ puts' = [puts EXCEPT ![i] = Append(@, PutCall(i, key, data, ct, TRUE))]
             /\ store' = (<<BUCKET(i).v, key>> :> Stored(i, data, ct)) @@ store
             /\ Return(i, Ok(key, "ndjson", Len(normalized[i])))
    /\ UNCHANGED <<env, feed, now, retries, http, payload, items, normalized, ts>>
    /\ UNCHANGED nvars

\* A second of wall-clock time passes, while some invocation has yet to read
\* the clock (line 218); later seconds change nothing the handler sees.
Tick ==
    /\ now < MaxClock
    /\ \E i \in Invocations : pc[i] \in {"start", "fetch", "resolve"}
    /\ now' = now + 1
    /\ UNCHANGED <<env, feed, store, pc, retries, http, payload, items, normalized,
                   ts, trail, puts, result>>
    /\ UNCHANGED nvars

\* Everything an invocation has before handler is entered.
Fresh(started) ==
    /\ now = 0
    /\ store = <<>>
    /\ pc = [i \in Invocations |-> IF i \in started THEN "start" ELSE "idle"]
    /\ retries = [i \in Invocations |-> RetryTotal]
    /\ http = [i \in Invocations |-> NoAttempt]
    /\ payload = [i \in Invocations |-> JNull]
    /\ items = [i \in Invocations |-> <<>>]
    /\ normalized = [i \in Invocations |-> <<>>]
    /\ ts = [i \in Invocations |-> 0]
    /\ trail = [i \in Invocations |-> <<>>]
    /\ puts = [i \in Invocations |-> <<>>]
    /\ result = [i \in Invocations |-> Running]

Unapplied ==
    /\ rec = JNull
    /\ casted = JNull
    /\ user = JNull
    /\ vrec = JNull
    /\ lenient = <<>>
    /\ strict = <<>>

NoHarness ==
    /\ raw = JDict(NoKeys)
    /\ edits = 0
    /\ Unapplied

\* One invocation, under any environment, against a source that may serve any
\* payload.
Init ==
    /\ env \in {[i \in Invocations |-> IF i = "a" THEN e ELSE NoEnv] : e \in Envs}
    /\ feed = AnySource
    /\ Fresh({"a"})
    /\ NoHarness

Next ==
    \/ \E i \in Invocations : CheckConfig(i)
    \/ \E i \in Invocations : HttpGet(i)
    \/ \E i \in Invocations : Resolve(i)
    \/ \E i \in Invocations : ParquetAttempt(i)
    \/ \E i \in Invocations : NdjsonAttempt(i)
    \/ Tick

Spec == Init /\ [][Next]_vars

\* Two invocations, each under its own format selector and with or without
\* pyarrow, sharing the bucket, the prefix, the clock and a steady source.
PairEnvs ==
    [BUCKET : {JStr("my-bucket")}, PREFIX : {JNull},
     API_URL : {JStr("https://example.test/api")},
     FILE_FORMAT : {JStr("parquet"), JStr("ndjson")}, pyarrow : BOOLEAN]
PairPayloads ==
    { JDict("results" :> JList(<<UserMinimal, UserMixed>>)),
      JDict("results" :> JList(<<UserMixed, JStr("junk")>>)),
      JDict("data" :> JList(<<UserMinimal>>)),
      UserMinimal }

InitPair ==
    /\ env \in [Invocations -> PairEnvs]
    /\ feed \in {FixedSource(p) : p \in PairPayloads}
    /\ Fresh(Invocations)
    /\ NoHarness

SpecPair == InitPair /\ [][Next]_vars

-----------------------------------------------------------------------------
(* The validating variant of the extractor: schema.py and its handler's loop *)

\* The models of schema.py: every field Optional, a string, an integer or
\* another model.
NameModel == [title |-> "str", first |-> "str", last |-> "str"]
StreetModel == [number |-> "int", name |-> "str"]
CoordinatesModel == [latitude |-> "str", longitude |-> "str"]
TimezoneModel == [offset |-> "str", description |-> "str"]
LocationModel ==
    [street |-> "StreetModel", city |-> "str", state |-> "str",
     country |-> "str", postcode |-> "str",
     coordinates |-> "CoordinatesModel", timezone |-> "TimezoneModel"]
LoginModel ==
    [uuid |-> "str", username |-> "str", password |-> "str", salt |-> "str",
     md5 |-> "str", sha1 |-> "str", sha256 |-> "str"]
DobModel == [date |-> "str", age |-> "int"]
RegisteredModel == [date |-> "str", age |-> "int"]
IdModel == [name |-> "str", value |-> "str"]
PictureModel == [large |-> "str", medium |-> "str", thumbnail |-> "str"]
UserModel ==
    [gender |-> "str", name |-> "NameModel", location |-> "LocationModel",
     email |-> "str", login |-> "LoginModel", dob |-> "DobModel",
     registered |-> "RegisteredModel", phone |-> "str", cell |-> "str",
     id |-> "IdModel", picture |-> "PictureModel", nat |-> "str"]

Models ==
    [NameModel |-> NameModel, StreetModel |-> StreetModel,
     CoordinatesModel |-> CoordinatesModel, TimezoneModel |-> TimezoneModel,
     LocationModel |-> LocationModel, LoginModel |-> LoginModel,
     DobModel |-> DobModel, RegisteredModel |-> RegisteredModel,
     IdModel |-> IdModel, PictureModel |-> PictureModel,
     UserModel |-> UserModel]

\* Optional[str]: a string is kept, a number is written out, the rest fails.
str_validator(v) ==
    CASE v.t = "str" -> v
      [] v.t = "int" -> JStr(ToString(v.v))
      [] v.t = "float" -> JStr(v.v)
      [] v.t = "bool" -> JStr(IF v.v THEN "True" ELSE "False")
      [] OTHER -> Exc("ValidationError")

\* int() of the floats the source may send.
Truncated == [x \in {"4.5"} |-> 4]

\* Optional[int]: an integer is kept, int(v) is tried on the rest.
int_validator(v) ==
    CASE v.t = "int" -> v
      [] v.t = "bool" -> JInt(IF v.v THEN 1 ELSE 0)
      [] v.t = "float" /\ v.v \in DOMAIN Truncated -> JInt(Truncated[v.v])
      [] v.t = "str" /\ (\E n \in IntLits : ToString(n) = v.v)
            -> JInt(CHOOSE n \in IntLits : ToString(n) = v.v)
      [] OTHER -> Exc("ValidationError")

\* dict(value) as a model tries it on what is no dict: an empty list or an
\* empty string gives {}, the other values of the model fail.
DictOf(v) ==
    CASE v.t = "dict" -> v
      [] v.t = "list" /\ v.v = <<>> -> JDict(NoKeys)
      [] v.t = "str" /\ v.v = "" -> JDict(NoKeys)
      [] OTHER -> Exc("ValidationError")

\* A model whose every field is required: a key that is absent fails.
RECURSIVE parse_model_required(_, _)
parse_model_required(m, obj) ==
    LET d == DictOf(obj)
    IN IF IsRaise(d) THEN d
       ELSE LET field(f) ==
                    IF f \notin DOMAIN d.v THEN Exc("ValidationError")
                    ELSE IF IsNone(d.v[f]) THEN JNull
                    ELSE IF Models[m][f] = "str" THEN str_validator(d.v[f])
                    ELSE IF Models[m][f] = "int" THEN int_validator(d.v[f])
                    ELSE parse_model_required(Models[m][f], d.v[f])
                fields == [f \in DOMAIN Models[m] |-> field(f)]
            IN IF \E f \in DOMAIN fields : IsRaise(fields[f])
               THEN Exc("ValidationError")
               ELSE JDict(fields)

\* BaseModel.parse_obj / BaseModel.validate: the declared fields, each
\* validated, an absent or null one read as None; keys not declared are
\* dropped; one failing field fails the model.
RECURSIVE parse_model(_, _)
parse_model(m, obj) ==
    LET d == DictOf(obj)
    IN IF IsRaise(d) THEN d
       ELSE LET field(f) ==
                    IF IsNone(DictGet(d, f)) THEN JNull
                    ELSE IF Models[m][f] = "str" THEN str_validator(d.v[f])
                    ELSE IF Models[m][f] = "int" THEN int_validator(d.v[f])
                    ELSE parse_model(Models[m][f], d.v[f])
                fields == [f \in DOMAIN Models[m] |-> field(f)]
            IN IF \E f \in DOMAIN fields : IsRaise(fields[f])
               THEN Exc("ValidationError")
               ELSE JDict(fields)

parse_obj(obj) == parse_model("UserModel", obj)

\* getattr(... getattr(user, a, None) ..., b, None)
RECURSIVE getattr_chain(_, _)
getattr_chain(obj, path) ==
    IF path = <<>> THEN obj
    ELSE getattr_chain(
             IF IsDict(obj) /\ Head(path) \in DOMAIN obj.v
             THEN obj.v[Head(path)] ELSE JNull,
             Tail(path))

validate_and_normalize(raw_item) ==
    LET parsed == parse_obj(raw_item)
    IN IF IsRaise(parsed) THEN JNull
       ELSE [f \in DOMAIN FieldPath |-> getattr_chain(parsed, FieldPath[f])]

\* The loop with the try around the whole of it: a failing item ends it.
RECURSIVE ValidateAll_abort(_)
ValidateAll_abort(its) ==
    IF its = <<>> THEN <<>>
    ELSE LET n == validate_and_normalize(Head(its))
         IN IF n # JNull THEN <<n>> \o ValidateAll_abort(Tail(its)) ELSE <<>>

\* for idx, it in enumerate(items): n = validate_and_normalize(it);
\* if n: normalized.append(n)
RECURSIVE ValidateAll(_)
ValidateAll(its) ==
    IF its = <<>> THEN <<>>
    ELSE LET n == validate_and_normalize(Head(its))
         IN (IF n # JNull THEN <<n>> ELSE <<>>) \o ValidateAll(Tail(its))

-----------------------------------------------------------------------------
(* The helpers on their own: a raw item, edited, then normalized *)

RECURSIVE SetPath(_, _, _)
SetPath(d, path, x) ==
    IF path = <<>> THEN x
    ELSE LET f == IF IsDict(d) THEN d.v ELSE NoKeys
             k == Head(path)
             sub == IF k \in DOMAIN f THEN f[k] ELSE JDict(NoKeys)
         IN JDict([j \in DOMAIN f \cup {k} |->
                      IF j = k THEN SetPath(sub, Tail(path), x) ELSE f[j]])

RECURSIVE DelPath(_, _)
DelPath(d, path) ==
    IF ~IsDict(d) \/ Head(path) \notin DOMAIN d.v THEN d
    ELSE IF Len(path) = 1
    THEN JDict([j \in DOMAIN d.v \ {Head(path)} |-> d.v[j]])
    ELSE JDict([j \in DOMAIN d.v |->
                   IF j = Head(path) THEN DelPath(d.v[j], Tail(path)) ELSE d.v[j]])

\* Every key path normalize_item reads, and every step on the way to one.
NodesOf(f) == {SubSeq(FieldPath[f], 1, n) : n \in 1..Len(FieldPath[f])}
AllNodes == UNION {NodesOf(f) : f \in DOMAIN FieldPath}

Bases == {UserFull, UserMinimal, JDict(NoKeys)}
Replacements ==
    {JNull, JStr("abc"), JStr("42"), JStr(""), JInt(42), JInt(0),
     JList(<<>>), JList(<<JStr("x")>>), JDict(NoKeys)}

\* What the source may send where a number is expected.
Numbers ==
    {JFloat("4.5"), JBool(TRUE), JStr("-3"), JStr("4.5"), JStr("abc"),
     JDict("a" :> JInt(1)), JList(<<JInt(42)>>)}

EditRaw ==
    /\ Unapplied
    /\ edits < MaxEdits
    /\ \E path \in AllNodes, x \in Replacements : raw' = SetPath(raw, path, x)
    /\ raw' # raw
    /\ edits' = edits + 1
    /\ UNCHANGED <<rec, casted, user, vrec, lenient, strict>>
    /\ UNCHANGED hvars

EditNumber ==
    /\ Unapplied
    /\ edits < MaxEdits
    /\ \E f \in IntFields, x \in Numbers : raw' = SetPath(raw, FieldPath[f], x)
    /\ raw' # raw
    /\ edits' = edits + 1
    /\ UNCHANGED <<rec, casted, user, vrec, lenient, strict>>
    /\ UNCHANGED hvars

DropKey ==
    /\ Unapplied
    /\ edits < MaxEdits
    /\ \E path \in AllNodes : raw' = DelPath(raw, path)
    /\ raw' # raw
    /\ edits' = edits + 1
    /\ UNCHANGED <<rec, casted, user, vrec, lenient, strict>>
    /\ UNCHANGED hvars

Normalize ==
    /\ Unapplied
    /\ rec' = normalize_item(raw)
    /\ UNCHANGED <<raw, edits, casted, user, vrec, lenient, strict>>
    /\ UNCHANGED hvars

Cast ==
    /\ rec # JNull /\ ~IsRaise(rec)
    /\ casted = JNull
    /\ casted' = cast_for_arrow(rec)
    /\ UNCHANGED <<raw, edits, rec, user, vrec, lenient, strict>>
    /\ UNCHANGED hvars

InitNorm ==
    /\ env = [i \in Invocations |-> NoEnv]
    /\ feed = AnySource
    /\ Fresh({})
    /\ raw \in Bases
    /\ edits = 0
    /\ Unapplied

NextNorm == EditRaw \/ EditNumber \/ DropKey \/ Normalize \/ Cast

SpecNorm == InitNorm /\ [][NextNorm]_vars

\* The item list of a fetch: the raw item between two items of the tests.
Around(item) == <<UserMinimal, item, UserFull>>

Validate ==
    /\ Unapplied
    /\ user' = parse_obj(raw)
    /\ vrec' = validate_and_normalize(raw)
    /\ UNCHANGED <<raw, edits, rec, casted, lenient, strict>>
    /\ UNCHANGED hvars

Loops ==
    /\ user # JNull
    /\ lenient = <<>> /\ strict = <<>>
    /\ lenient' = NormalizeAll(Around(raw))
    /\ strict' = ValidateAll(Around(raw))
    /\ UNCHANGED <<raw, edits, rec, casted, user, vrec>>
    /\ UNCHANGED hvars

\* One value of each kind the validation tells apart.
Kinds == {JNull, JStr("abc"), JInt(42), JList(<<>>), JDict(NoKeys)}

EditItem ==
    /\ Unapplied
    /\ edits < MaxEdits
    /\ \E path \in AllNodes, x \in Kinds : raw' = SetPath(raw, path, x)
    /\ raw' # raw
    /\ edits' = edits + 1
    /\ UNCHANGED <<rec, casted, user, vrec, lenient, strict>>
    /\ UNCHANGED hvars

\* Items that are no mapping, beside the items of the tests.
Strays == {JStr("junk"), JNull, JInt(7), JList(<<>>)}

InitValid ==
    /\ env = [i \in Invocations |-> NoEnv]
    /\ feed = AnySource
    /\ Fresh({})
    /\ raw \in Bases \cup Strays
    /\ edits = 0
    /\ Unapplied

NextValid == EditItem \/ DropKey \/ Validate \/ Loops

SpecValid == InitValid /\ [][NextValid]_vars

-----------------------------------------------------------------------------
(* Claims about the handler *)

Last(s) == s[Len(s)]
Formats(i) == {trail[i][k].format : k \in 1..Len(trail[i])}
Entered(i) == pc[i] \notin {"idle", "start"}
Encoding(i) == pc[i] \in {"parquet", "ndjson"} \/ trail[i] # <<>>

\* C1: a requested parquet whose encode or write fails is followed by an NDJSON
\* attempt on the same batch, the invocation raises after the encoders were
\* entered only when that NDJSON attempt failed, and any other requested format
\* goes to NDJSON alone, never to parquet.
C1_FormatSelection ==
    \A i \in Invocations :
        LET tr == trail[i] IN
        /\ FILE_FORMAT(i) # "parquet" =>
              /\ pc[i] # "parquet"
              /\ "parquet" \notin Formats(i)
              /\ (pc[i] = "done" /\ tr # <<>> =>
                     Len(tr) = 1 /\ tr[1].format = "ndjson")
        /\ (FILE_FORMAT(i) = "parquet" /\ tr # <<>>) => tr[1].format = "parquet"
        /\ (tr # <<>> /\ tr[1].format = "parquet" /\ tr[1].outcome # "ok") =>
              \/ pc[i] = "ndjson" /\ Len(tr) = 1
              \/ /\ pc[i] = "done" /\ Len(tr) = 2 /\ tr[2].format = "ndjson"
                 /\ Last(puts[i]).body = to_ndjson_bytes(normalized[i])
        /\ (Encoding(i) /\ result[i].status = "raised") =>
              Last(tr) = Attempt("ndjson", "write_error")
        /\ (tr # <<>> /\ Last(tr).outcome = "ok") => result[i].status = "ok"

C1_Witness ==
    /\ FILE_FORMAT("a") = "parquet"
    /\ HAS_PYARROW("a")
    /\ trail["a"] = <<Attempt("parquet", "write_error"), Attempt("ndjson", "ok")>>
    /\ result["a"].status = "ok"

\* C2: an invocation makes at most one parquet attempt and at most one NDJSON
\* attempt, in that order, issues at most two puts, and is over once the NDJSON
\* attempt was made.
C2_FallbackAtMostOnce ==
    \A i \in Invocations :
        LET tr == trail[i] IN
        /\ Len(tr) <= 2
        /\ Len(puts[i]) <= Len(tr)
        /\ \A j, k \in 1..Len(tr) : j # k => tr[j].format # tr[k].format
        /\ \A j, k \in 1..Len(tr) : (j < k /\ tr[j].format = "ndjson") =>
                                      tr[k].format # "parquet"
        /\ "ndjson" \in Formats(i) => pc[i] = "done"

C2_Witness ==
    /\ Len(puts["a"]) = 2
    /\ ~puts["a"][1].ok /\ ~puts["a"][2].ok
    /\ result["a"] = Raised("ClientError")

SameCall(p, q) ==
    /\ p.bucket = q.bucket /\ p.key = q.key
    /\ p.body = q.body /\ p.content_type = q.content_type

\* Invocation i asked for parquet without pyarrow, invocation j asked for NDJSON,
\* and both are over with the same non-empty batch and the same timestamp.
FallbackBesideDirect(i, j) ==
    /\ i # j
    /\ pc[i] = "done" /\ pc[j] = "done"
    /\ FILE_FORMAT(i) = "parquet" /\ ~HAS_PYARROW(i)
    /\ FILE_FORMAT(j) = "ndjson"
    /\ normalized[i] # <<>>
    /\ normalized[i] = normalized[j]
    /\ ts[i] = ts[j]

\* C3: a parquet request without pyarrow issues the one put a direct NDJSON
\* request issues for the same batch and timestamp (same key, bytes, content
\* type), and where the store accepts the put it returns the same result.
C3_FallbackEqualsDirect ==
    \A i, j \in Invocations :
        FallbackBesideDirect(i, j) =>
            /\ Len(puts[i]) = 1 /\ Len(puts[j]) = 1
            /\ SameCall(puts[i][1], puts[j][1])
            /\ puts[i][1].body = to_ndjson_bytes(normalized[j])
            /\ puts[i][1].ok =>
                  /\ result[i].status = "ok" /\ result[i].format = "ndjson"
                  /\ store[<<puts[i][1].bucket, puts[i][1].key>>].body = puts[j][1].body
            /\ (puts[i][1].ok /\ puts[j][1].ok) => result[i] = result[j]

C3_Witness ==
    /\ FallbackBesideDirect("a", "b")
    /\ Len(normalized["a"]) = 2
    /\ trail["a"] = <<Attempt("parquet", "codec_missing"), Attempt("ndjson", "ok")>>
    /\ result["a"] = result["b"]
    /\ result["b"].status = "ok"

\* The payload carries an empty record list: under "results", under "data", or
\* as the top-level value.
EmptyFetch(p) ==
    \/ p = JList(<<>>)
    \/ IsDict(p) /\ "results" \in DOMAIN p.v /\ p.v["results"] = JList(<<>>)
    \/ IsDict(p) /\ "results" \notin DOMAIN p.v /\ "data" \in DOMAIN p.v
       /\ p.v["data"] = JList(<<>>)

Fetched(i) == pc[i] \in {"resolve", "parquet", "ndjson", "done"} /\ http[i].last = Status(200)
               /\ result[i] # Raised("JSONDecodeError")

\* C4: after the fetch of an empty record list the handler returns
\* {status: "no_records", fetched: 0}, raises nothing and puts nothing.
C4_EmptyListNoRecords ==
    \A i \in Invocations :
        (Fetched(i) /\ pc[i] # "resolve" /\ EmptyFetch(payload[i])) =>
            result[i] = NoRecords(0) /\ puts[i] = <<>>

\* The item list the payload supplies: the list under "results", else the list
\* under "data", else the top-level list, else the one top-level object.
HasList(p, k) == IsDict(p) /\ k \in DOMAIN p.v /\ IsList(p.v[k])
Supplied(p) ==
    IF HasList(p, "results") THEN p.v["results"].v
    ELSE IF HasList(p, "data") THEN p.v["data"].v
    ELSE IF IsList(p) THEN p.v
    ELSE <<p>>
Suppliable(p) ==
    \/ HasList(p, "results")
    \/ HasList(p, "data")
    \/ IsList(p)
    \/ IsDict(p) /\ DOMAIN p.v \cap {"results", "data"} = {}

\* C5: the handler resolves the item list to exactly the list the payload
\* supplies, whatever its length.
C5_ItemListResolution ==
    \A i \in Invocations :
        (Fetched(i) /\ pc[i] # "resolve" /\ Suppliable(payload[i])) =>
            /\ result[i].status # "raised" \/ Encoding(i)
            /\ items[i] = Supplied(payload[i])

FetchErrors == {"ConnectionError", "HTTPError", "JSONDecodeError"}
ShapeErrors == {"RuntimeError: Unexpected payload shape", "AttributeError"}

\* C6: a fetch that ends in a transport failure, an error status or an
\* undecodable body, and a payload that resolves to no list, end the invocation
\* with the error raised and no put issued; a put is issued only after a 2xx
\* response whose payload resolved to a list.
C6_FetchShapeErrorsAbort ==
    \A i \in Invocations :
        /\ (pc[i] # "fetch" /\ http[i].n > 0 /\ http[i].last # Status(200)) =>
              /\ pc[i] = "done" /\ puts[i] = <<>>
              /\ result[i].status = "raised" /\ result[i].error \in FetchErrors
        /\ (result[i].status = "raised" /\ result[i].error \in FetchErrors \cup ShapeErrors) =>
              pc[i] = "done" /\ puts[i] = <<>> /\ trail[i] = <<>>
        /\ puts[i] # <<>> =>
              /\ http[i].last = Status(200)
              /\ IsDict(payload[i])
              /\ items[i] # <<>>

C6_Witness ==
    /\ http["a"].n > 1
    /\ http["a"].last = Status(503)
    /\ result["a"] = Raised("HTTPError")

\* C7: with the bucket or the source URL missing from the environment the
\* invocation raises a configuration error before any HTTP request or put.
C7_MissingSettingIsFatal ==
    \A i \in Invocations :
        (Entered(i) /\ (IsNone(env[i].BUCKET) \/ IsNone(env[i].API_URL))) =>
            /\ pc[i] = "done"
            /\ result[i].status = "raised"
            /\ http[i].n = 0
            /\ puts[i] = <<>>

\* C8: a format selector that is not set or is empty leads to no parquet
\* attempt, and parquet is attempted only under a selector that equals
\* "parquet" ignoring case.
C8_FormatSelectorDefault ==
    \A i \in Invocations :
        /\ ~Truthy(env[i].FILE_FORMAT) =>
              pc[i] # "parquet" /\ "parquet" \notin Formats(i)
        /\ (pc[i] = "parquet" \/ "parquet" \in Formats(i)) =>
              /\ ~IsNone(env[i].FILE_FORMAT)
              /\ Lower(env[i].FILE_FORMAT.v) = "parquet"

-----------------------------------------------------------------------------
(* Claims about normalize_item and get_in *)

Applied == rec # JNull

\* Every step of the path leads through a mapping that has the key.
RECURSIVE Traversable(_, _)
Traversable(d, path) ==
    \/ path = <<>>
    \/ /\ IsDict(d)
       /\ Head(path) \in DOMAIN d.v
       /\ Traversable(d.v[Head(path)], Tail(path))

\* C9: normalize_item of any mapping returns a record whose keys are exactly
\* the 24 fields of the fixed schema.
C9_FixedKeySet ==
    Applied =>
        /\ ~IsRaise(rec)
        /\ DOMAIN rec = SchemaFields
        /\ Cardinality(DOMAIN rec) = Len(FieldOrder)

C9_Witness ==
    /\ Applied
    /\ edits > 0
    /\ "name" \notin DOMAIN raw.v
    /\ "email" \notin DOMAIN raw.v
    /\ DOMAIN rec = SchemaFields

\* C10: normalize_item raises nothing, and a field whose key path meets a
\* missing key or a value that is no mapping comes out null.
C10_BrokenPathIsNull ==
    Applied =>
        /\ ~IsRaise(rec)
        /\ \A f \in SchemaFields :
              ~Traversable(raw, FieldPath[f]) => f \in DOMAIN rec /\ rec[f] = JNull

C10_Witness ==
    /\ Applied
    /\ "location" \in DOMAIN raw.v
    /\ raw.v["location"] = JStr("abc")
    /\ rec["country"] = JNull /\ rec["street_number"] = JNull
    /\ rec["gender"] = JStr("male")

-----------------------------------------------------------------------------
(* Claims about cast_for_arrow *)

-----------------------------------------------------------------------------
(* Claims about the artifacts *)

\* The records a put carries: the rows of a columnar artifact, the records
\* whose lines make up a line-delimited one.
Carried(i, put) ==
    IF put.content_type = "application/octet-stream"
    THEN put.body.rows
    ELSE normalized[i]

\* C12: in every record of every artifact the handler writes, in either
\* format, street_number, age and registered_age are integers or null, never
\* strings, also when the source sends a numeric-looking string.
C12_NumericFieldsInArtifacts ==
    \A i \in Invocations : \A k \in 1..Len(puts[i]) :
        LET put == puts[i][k]
        IN put.ok =>
              /\ put.content_type # "application/octet-stream"
                   => put.body = to_ndjson_bytes(normalized[i])
              /\ \A n \in 1..Len(Carried(i, put)) :
                    \A f \in {"street_number", "age", "registered_age"} :
                       Carried(i, put)[n][f].t \in {"int", "null"}

-----------------------------------------------------------------------------
(* Claims about the items of a batch *)

Looped == lenient # <<>> \/ strict # <<>>

\* What each handler makes of the two items of the tests on their own.
LenientMinimal == normalize_item(UserMinimal)
LenientFull == normalize_item(UserFull)
StrictMinimal == validate_and_normalize(UserMinimal)
StrictFull == validate_and_normalize(UserFull)

\* C13: an item that cannot be normalized (no mapping for the lenient
\* handler, rejected by UserModel for the validating one) is skipped, the items
\* around it are normalized and included, and the loop raises nothing.
C13_ItemErrorsIsolated ==
    Looped =>
        /\ lenient = <<LenientMinimal>>
                     \o (IF raw.t = "dict" THEN <<normalize_item(raw)>> ELSE <<>>)
                     \o <<LenientFull>>
        /\ strict = <<StrictMinimal>>
                    \o (IF IsRaise(user) THEN <<>> ELSE <<vrec>>)
                    \o <<StrictFull>>
        /\ \A k \in 1..Len(lenient) : lenient[k] # JNull /\ ~IsRaise(lenient[k])
        /\ \A k \in 1..Len(strict) : strict[k] # JNull /\ ~IsRaise(strict[k])
        /\ strict[1]["first_name"] = JStr("John")
        /\ strict[Len(strict)]["first_name"] = JStr("Roland")

C13_Witness ==
    /\ Looped
    /\ raw = JStr("junk")
    /\ IsRaise(user)
    /\ Len(lenient) = 2 /\ Len(strict) = 2

\* The value a traversable key path leads to.
RECURSIVE At(_, _)
At(d, path) == IF path = <<>> THEN d ELSE At(d.v[Head(path)], Tail(path))

Branches == {"name", "location", "login", "dob", "registered", "id", "picture"}

\* Every value the item holds on the key paths of the record is null or of the
\* declared type: a mapping for a branch, an integer for a number, a string
\* for the rest.
WellTyped ==
    /\ raw.t = "dict"
    /\ \A node \in AllNodes :
          (Traversable(raw, node) /\ At(raw, node) # JNull) =>
              At(raw, node).t =
                  IF \E f \in {"street_number", "age", "registered_age"} :
                         FieldPath[f] = node
                  THEN "int"
                  ELSE IF \E f \in DOMAIN FieldPath : FieldPath[f] = node
                  THEN "str"
                  ELSE "dict"

\* C14: UserModel accepts every item whose present fields are correctly typed,
\* whichever optional branches are absent; an absent branch or sub-field reads
\* as null in the model and in validate_and_normalize's record, and a present
\* field keeps its source value.
C14_OptionalBranchesValidate ==
    user # JNull =>
        /\ IsRaise(user) <=> vrec = JNull
        /\ ~IsRaise(user) =>
              \A f \in DOMAIN FieldPath :
                  ~Traversable(raw, FieldPath[f]) => vrec[f] = JNull
        /\ WellTyped =>
              /\ ~IsRaise(user)
              /\ \A b \in Branches : b \notin DOMAIN raw.v => user.v[b] = JNull
              /\ DOMAIN vrec = DOMAIN FieldPath
              /\ \A f \in DOMAIN FieldPath :
                    vrec[f] = IF Traversable(raw, FieldPath[f])
                              THEN At(raw, FieldPath[f]) ELSE JNull

C14_Witness ==
    /\ user # JNull
    /\ raw = UserMinimal
    /\ user.v["dob"] = JNull /\ user.v["login"] = JNull
    /\ user.v["name"].v["title"] = JNull
    /\ vrec["first_name"] = JStr("John") /\ vrec["city"] = JStr("Bogota")
    /\ vrec["dob"] = JNull /\ vrec["street_number"] = JNull

-----------------------------------------------------------------------------
(* Claims about the fetch *)

\* With at most cap GET attempts: another attempt follows only a transport
\* failure or a status of the retry set, any other error status ends the fetch
\* at once, and a fetch whose last allowed attempt fails raises.
RetryPolicy(cap) ==
    \A i \in Invocations :
        LET n == http[i].n
            last == http[i].last
            again == last.t = "error"
                     \/ (last.t = "status" /\ last.v \in {429, 500, 502, 503, 504})
            failed == /\ pc[i] = "done"
                      /\ result[i].status = "raised"
                      /\ result[i].error \in {"ConnectionError", "HTTPError"}
                      /\ payload[i] = JNull
        IN /\ n <= cap
           /\ (pc[i] = "fetch" /\ n > 0) => again
           /\ (n > 0 /\ last.t = "status" /\ last.v >= 300 /\ ~again) => failed
           /\ (n = cap /\ again) => failed

\* C15 as stated: at most 3 GET attempts in all, a further attempt only
\* after 429, 500, 502, 503, 504 or a transport failure, any other error
\* status fails at once, and an exhausted retry budget fails the fetch.
C15_AtMostThreeAttempts == RetryPolicy(3)

\* C15, amended: the same with at most 4 GET attempts in all, the first and
\* at most 3 retries.
C15_AtMostThreeRetries == RetryPolicy(4)

C15_Witness ==
    \E i \in Invocations :
        /\ http[i].n = 4
        /\ http[i].last = Status(503)
        /\ result[i] = Raised("HTTPError")

-----------------------------------------------------------------------------
(* Claims about the batch and its artifact *)

\* Every mapping an item list of the model can hold, with its normalization
\* and the line that encodes it.
Mappings == {x \in ItemPool \cup Payloads : x.t = "dict"}
RecordOf == [x \in Mappings |-> normalize_item(x)]
LineOf == [x \in Mappings |-> JsonLine(normalize_item(x))]

\* C16: the batch is the normalization of the items that are mappings, in the
\* order of the item list; an NDJSON blob is one line per record of the batch
\* in that order, each ended by a newline; `records` is the length of the
\* batch and, where no record is left, `fetched` is the length of the item list.
C16_BatchKeepsSourceOrder ==
    \A i \in Invocations :
        LET maps == SelectSeq(items[i], IsDict)
            batch == normalized[i]
        IN /\ Encoding(i) =>
                 /\ Len(batch) = Len(maps) /\ Len(batch) > 0
                 /\ \A k \in 1..Len(maps) :
                       maps[k] \in Mappings /\ batch[k] = RecordOf[maps[k]]
           /\ \A n \in 1..Len(puts[i]) :
                 puts[i][n].content_type = "application/x-ndjson; charset=utf-8" =>
                    /\ Len(puts[i][n].body) = 2 * Len(maps)
                    /\ \A k \in 1..Len(maps) :
                          /\ puts[i][n].body[2 * k - 1] = LineOf[maps[k]]
                          /\ puts[i][n].body[2 * k] = "\n"
           /\ result[i].status = "ok" => result[i].records = Len(batch)
           /\ result[i].status = "no_records" =>
                 /\ maps = <<>>
                 /\ result[i].fetched = Len(items[i])

C16_Witness ==
    \E i \in Invocations :
        /\ result[i].status = "ok" /\ result[i].format = "ndjson"
        /\ items[i] = <<UserMixed, UserMinimal>>
        /\ result[i].records = 2
        /\ store[<<BUCKET(i).v, result[i].key>>].body[1] = JsonLine(normalize_item(UserMixed))


\* The puts of invocation i that the store accepted.
Accepted(i) == {n \in 1..Len(puts[i]) : puts[i][n].ok}

\* The configured prefix without its trailing slash.
Directory(i) == IF env[i].PREFIX = JNull THEN "raw" ELSE "landing"

\* C17: when the handler returns status ok, exactly one put succeeded in the
\* invocation and it went to the returned key; the key is
\* <prefix>/users_<timestamp>.<format>, and the content type is
\* application/octet-stream for parquet and application/x-ndjson;
\* charset=utf-8 for ndjson; after a fallback the format is ndjson.
C17_OkMeansOnePut ==
    \A i \in Invocations :
        result[i].status = "ok" =>
            /\ Cardinality(Accepted(i)) = 1
            /\ \A n \in Accepted(i) :
                  /\ n = Len(puts[i])
                  /\ puts[i][n].key = result[i].key
                  /\ puts[i][n].content_type =
                        IF result[i].format = "parquet"
                        THEN "application/octet-stream"
                        ELSE "application/x-ndjson; charset=utf-8"
            /\ result[i].format \in {"parquet", "ndjson"}
            /\ result[i].key = Directory(i) \o "/users_" \o ToString(ts[i])
                               \o "." \o result[i].format
            /\ <<BUCKET(i).v, result[i].key>> \in DOMAIN store
            /\ Len(trail[i]) = 2 => result[i].format = "ndjson"

C17_Witness ==
    \E i \in Invocations :
        /\ result[i].status = "ok"
        /\ result[i].key = "landing/users_1.ndjson"
        /\ Len(puts[i]) = 2
        /\ ~puts[i][1].ok /\ puts[i][1].key = "landing/users_1.parquet"
        /\ puts[i][2].ok


\* C18: no two invocations sharing bucket and prefix ever put to the same
\* storage key, so that no artifact of one is overwritten by another.
C18_NoKeyCollision ==
    \A i, j \in Invocations :
        i # j =>
            \A n \in 1..Len(puts[i]), m \in 1..Len(puts[j]) :
                puts[i][n].bucket = puts[j][m].bucket =>
                    puts[i][n].key # puts[j][m].key

====
